---- MODULE Spec2Model ----
(***************************************************************************)
(* CASDbot (src/CASDbot.py): bulk delivery of WhatsApp Web messages read   *)
(* from a spreadsheet.  The model covers WhatsAppSender (setup_driver,     *)
(* validate_phone_number, send_single_message, close_driver),              *)
(* ExcelHandler.load_excel, ProgressDialog, ModernButton and the CASDbotGUI*)
(* handlers select_file, send_messages, _send_messages_thread,             *)
(* _reenable_buttons and export_file.                                      *)
(*                                                                         *)
(* Strings are sequences of one-character strings, so that re.sub, strip   *)
(* and urllib.parse.quote are computed character by character.             *)
(***************************************************************************)
EXTENDS Integers, Sequences, FiniteSets, TLC

(***************************************************************************)
(* Bounds of the model.                                                    *)
(***************************************************************************)
\* rows of a loaded spreadsheet
MaxRows == 2
\* batch runs (worker threads) started in one behaviour
MaxRuns == 2
\* digits of a generated phone number (the sender-level specification)
MaxNumDigits == 16
\* characters of a generated message (the sender-level specification)
MaxMsgLen == 3

(***************************************************************************)
(* Program constants.                                                      *)
(***************************************************************************)
\* validate_phone_number: len(clean_number) < 10
MinPhoneDigits == 10
\* validate_phone_number: len(clean_number) > 15
MaxPhoneDigits == 15

Runs == 1..MaxRuns

(***************************************************************************)
(* Characters.                                                             *)
(***************************************************************************)
Digits == {"0", "1", "2", "3", "4", "5", "6", "7", "8", "9"}
Letters == {"H", "i", "t", "h", "e", "r", "x", "a", "A"}
NL == "\n"
\* str.strip() with no argument strips whitespace
Whitespace == {" ", NL, "\t"}

\* the regular-expression class \d
IsDigit(c) == c \in Digits

(***************************************************************************)
(* re.sub(r'[^\d]', '', s): every character that is not a digit is removed.*)
(***************************************************************************)
RECURSIVE ReSubNonDigits(_)
ReSubNonDigits(s) ==
    IF s = <<>> THEN <<>>
    ELSE (IF IsDigit(Head(s)) THEN <<Head(s)>> ELSE <<>>)
         \o ReSubNonDigits(Tail(s))

\* a plausible slip: the bounds test written with <= and >=
validate_phone_number_offbyone(number) ==
    LET clean_number == ReSubNonDigits(number)
    IN  IF Len(clean_number) <= MinPhoneDigits
           \/ Len(clean_number) >= MaxPhoneDigits
        THEN FALSE
        ELSE TRUE

(***************************************************************************)
(* WhatsAppSender.validate_phone_number                                    *)
(***************************************************************************)
validate_phone_number(number) ==
    LET clean_number == ReSubNonDigits(number)
    IN  IF Len(clean_number) < MinPhoneDigits
           \/ Len(clean_number) > MaxPhoneDigits
        THEN FALSE
        ELSE TRUE

(***************************************************************************)
(* str.strip(): leading and trailing whitespace removed.                   *)
(***************************************************************************)
RECURSIVE LStrip(_)
LStrip(s) ==
    IF s # <<>> /\ Head(s) \in Whitespace THEN LStrip(Tail(s)) ELSE s

RECURSIVE RStrip(_)
RStrip(s) ==
    IF s # <<>> /\ s[Len(s)] \in Whitespace
    THEN RStrip(SubSeq(s, 1, Len(s) - 1))
    ELSE s

\* a plausible slip: only blanks are stripped, strip(' ')
StripBlanksOnly(s) ==
    LET RECURSIVE L(_)
        L(u) == IF u # <<>> /\ Head(u) = " " THEN L(Tail(u)) ELSE u
        RECURSIVE R(_)
        R(u) == IF u # <<>> /\ u[Len(u)] = " "
                THEN R(SubSeq(u, 1, Len(u) - 1)) ELSE u
    IN  R(L(s))

Strip(s) == RStrip(LStrip(s))

(***************************************************************************)
(* urllib.parse.quote(s) with the default safe='/': letters, digits and    *)
(* "_.-~/" are kept, every other character becomes %XX of its byte.        *)
(***************************************************************************)
QuoteSafe == Digits \cup Letters \cup {"_", ".", "-", "~", "/"}

PercentCode(c) ==
    CASE c = " "  -> <<"%", "2", "0">>
      [] c = NL   -> <<"%", "0", "A">>
      [] c = "\t" -> <<"%", "0", "9">>
      [] c = "%"  -> <<"%", "2", "5">>
      [] c = "+"  -> <<"%", "2", "B">>
      [] c = "("  -> <<"%", "2", "8">>
      [] c = ")"  -> <<"%", "2", "9">>
      [] c = "&"  -> <<"%", "2", "6">>
      [] c = "="  -> <<"%", "3", "D">>
      [] c = "?"  -> <<"%", "3", "F">>

RECURSIVE Quote(_)
Quote(s) ==
    IF s = <<>> THEN <<>>
    ELSE (IF Head(s) \in QuoteSafe THEN <<Head(s)>> ELSE PercentCode(Head(s)))
         \o Quote(Tail(s))

\* line 217: message.replace("\n", "%0A")
RECURSIVE ReplaceNewlines(_)
ReplaceNewlines(s) ==
    IF s = <<>> THEN <<>>
    ELSE (IF Head(s) = NL THEN <<"%", "0", "A">> ELSE <<Head(s)>>)
         \o ReplaceNewlines(Tail(s))

(***************************************************************************)
(* The deep link of send_single_message, line 223:                         *)
(* f"https://web.whatsapp.com/send?phone={number}&text={message_encoded}"  *)
(* The fixed parts are single tokens, the interpolated parts characters.   *)
(***************************************************************************)
BuildUrl(number, message_encoded) ==
    <<"https://web.whatsapp.com/send", "?", "phone", "=">> \o number
    \o <<"&", "text", "=">> \o message_encoded

\* The value of query parameter `name` of a URL: what follows "name=" after
\* a "?" or "&", up to the next "&" or the end.
QueryParam(url, name) ==
    LET starts == {i \in 1..Len(url) :
                     /\ i >= 2 /\ i + 1 <= Len(url)
                     /\ url[i] = name /\ url[i + 1] = "="
                     /\ url[i - 1] \in {"?", "&"}}
    IN  IF starts = {} THEN <<>>
        ELSE LET i == CHOOSE j \in starts : \A k \in starts : j <= k
                 ends == {e \in (i + 2)..Len(url) : url[e] = "&"}
                 last == IF ends = {} THEN Len(url)
                         ELSE (CHOOSE e \in ends : \A k \in ends : e <= k) - 1
             IN  SubSeq(url, i + 2, last)

(***************************************************************************)
(* Status strings written by send_single_message.  The diagnostic excerpt  *)
(* str(e)[:50] appended to the two "Erro ..." strings is left out.         *)
(***************************************************************************)
StInvalidNumber == "Número inválido"
StEmptyMessage == "Mensagem vazia"
StSent == "Mensagem Enviada"
StTimeout == "Timeout - Página não carregou"
StBrowserError == "Erro do navegador"
StUnexpected == "Erro inesperado"
StDefault == "Erro desconhecido"

\* The Status of a record no run has written: "" set by load_excel, or the
\* empty cell (NaN) of a Status column the file already had.
StatusNaN == "nan"
Pending(status) == status \in {"", StatusNaN}

(***************************************************************************)
(* Spreadsheets the user can choose.  A text cell is a character sequence  *)
(* or NaN (an empty cell).                                                 *)
(***************************************************************************)
NaN == <<"nan">>

NumPlain == <<"5", "5", "1", "1", "9", "9", "9", "9", "9", "9", "9", "9", "9">>
NumShort == <<"1", "2", "3">>
NumOther == <<"5", "5", "1", "1", "8", "8", "8", "8", "8", "8", "8", "8", "8">>
NumSeparators ==
    <<"+", "5", "5", " ", "(", "1", "1", ")", " ",
      "9", "8", "8", "8", "8", "-", "7", "7", "7", "7">>
MsgHiThere == <<"H", "i", NL, "t", "h", "e", "r", "e">>
MsgX == <<"x">>
MsgBlank == <<" ">>
MsgPadded == <<" ", "H", "i", NL>>

Cell(number, message, status) ==
    [Numero |-> number, Mensagem |-> message, Status |-> status]

\* rows of a sheet that has no Status column
PlainRows ==
    { Cell(NumPlain, MsgHiThere, ""),
      Cell(NumShort, MsgX, "") }

RECURSIVE SeqsUpTo(_, _)
SeqsUpTo(S, n) ==
    IF n = 0 THEN {<<>>}
    ELSE LET shorter == SeqsUpTo(S, n - 1)
         IN  shorter \cup
             {Append(s, x) : s \in {u \in shorter : Len(u) = n - 1}, x \in S}

\* a sheet exported by an earlier session: it has a Status column
FileWithStatus ==
    [columns |-> TRUE, has_status |-> TRUE,
     rows |-> << Cell(NumPlain, MsgHiThere, StSent),
                 Cell(NumSeparators, MsgPadded, StatusNaN) >>]

\* a sheet with an empty Número cell in its first row
FileWithGaps ==
    [columns |-> TRUE, has_status |-> FALSE,
     rows |-> << Cell(NaN, MsgX, ""), Cell(NumSeparators, MsgPadded, "") >>]

\* a sheet with a valid record, a short number and a blank message
FileScenario ==
    [columns |-> TRUE, has_status |-> FALSE,
     rows |-> << Cell(NumPlain, MsgHiThere, ""), Cell(NumShort, MsgX, ""),
                 Cell(NumOther, MsgBlank, "") >>]

\* a sheet without the Mensagem column
FileNoColumns ==
    [columns |-> FALSE, has_status |-> FALSE, rows |-> <<>>]

Files ==
    { [columns |-> TRUE, has_status |-> FALSE, rows |-> r] :
        r \in SeqsUpTo(PlainRows, MaxRows) \ {<<>>} }
    \cup {FileWithStatus, FileWithGaps, FileScenario, FileNoColumns}

(***************************************************************************)
(* ExcelHandler.load_excel.  LoadRaises: the ValueError for a missing      *)
(* required column.  LoadExcel: the rows of the returned DataFrame.        *)
(***************************************************************************)
LoadRaises(file) == ~file.columns

RECURSIVE DropNa(_)
DropNa(rows) ==
    IF rows = <<>> THEN <<>>
    ELSE (IF Head(rows).Numero = NaN \/ Head(rows).Mensagem = NaN
          THEN <<>> ELSE <<Head(rows)>>)
         \o DropNa(Tail(rows))

LoadExcel(file) ==
    LET with_status ==
            IF ~file.has_status
            THEN [i \in DOMAIN file.rows |-> [file.rows[i] EXCEPT !.Status = ""]]
            ELSE file.rows
    IN  DropNa(with_status)

(***************************************************************************)
(* The page WhatsApp Web shows after the deep link has loaded: which of    *)
(* the elements a sender could use are there within the wait.              *)
(***************************************************************************)
Surface(composer, send_label, send_icon) ==
    [loaded |-> TRUE, composer |-> composer, send_label |-> send_label,
     send_icon |-> send_icon]

\* the chat with all its controls; a page without a chat; the chat without
\* the composer, with and without the send icon
Surfaces ==
    { Surface(TRUE, TRUE, TRUE), Surface(FALSE, FALSE, FALSE),
      Surface(FALSE, TRUE, TRUE), Surface(FALSE, TRUE, FALSE) }
NoPage ==
    [loaded |-> FALSE, composer |-> FALSE, send_label |-> FALSE, send_icon |-> FALSE]

(***************************************************************************)
(* Exceptions.  Mro(e): the classes an exception of class e is an instance *)
(* of (selenium: TimeoutException is a WebDriverException).                *)
(***************************************************************************)
Mro(e) ==
    CASE e = "TimeoutException" ->
            {"TimeoutException", "WebDriverException", "Exception"}
      [] e = "WebDriverException" -> {"WebDriverException", "Exception"}
      [] e = "AttributeError" -> {"AttributeError", "Exception"}
      [] e = "ConnectionError" -> {"ConnectionError", "Exception"}

\* what a call on a live session can raise
SessionFaults == {"TimeoutException", "WebDriverException", "ConnectionError"}

\* a plausible slip: no catch-all clause
ExceptClausesNoCatchAll ==
    << [catch |-> "TimeoutException", status |-> StTimeout],
       [catch |-> "WebDriverException", status |-> StBrowserError] >>

\* a plausible slip: the base class caught before its subclass
ExceptClausesBaseFirst ==
    << [catch |-> "WebDriverException", status |-> StBrowserError],
       [catch |-> "TimeoutException", status |-> StTimeout],
       [catch |-> "Exception", status |-> StUnexpected] >>

\* the except clauses of send_single_message, in order
ExceptClauses ==
    << [catch |-> "TimeoutException", status |-> StTimeout],
       [catch |-> "WebDriverException", status |-> StBrowserError],
       [catch |-> "Exception", status |-> StUnexpected] >>

\* the first clause that catches e, or 0 when e propagates
Dispatch(e) ==
    LET m == {i \in DOMAIN ExceptClauses : ExceptClauses[i].catch \in Mro(e)}
    IN  IF m = {} THEN 0 ELSE CHOOSE i \in m : \A j \in m : i <= j

(***************************************************************************)
(* State.                                                                  *)
(***************************************************************************)
VARIABLES
    df,                 \* CASDbotGUI.df: [none, rows]; rows of [Numero, Mensagem, Status]
    send_messages_btn,  \* ModernButton.state of "Enviar Mensagens"
    select_file_btn,    \* ModernButton.state of "Escolher Arquivo Excel"
    export_btn,         \* ModernButton.state of "Exportar Status"
    driver,             \* WhatsAppSender.driver: None, or the browser run t launched
    progress_dialog,    \* CASDbotGUI.progress_dialog: None, or the dialog of run t
    dialog,             \* the ProgressDialog of each run: [state, cancelled]
    grab,               \* the dialog holding the Tk grab (grab_set), or None
    pc,                 \* where each worker thread is in _send_messages_thread
    loc,                \* the locals of each worker thread
    call,               \* the locals of the send_single_message call of each thread
    after_queue,        \* callbacks scheduled with root.after and not yet run
    launched,           \* history: the runs whose webdriver.Chrome(...) started a browser
    quit_calls,         \* history: calls of quit() on the browser of each run
    shown,              \* history: the message box each run has shown at its end
    pending_at_start,   \* history: the rows that were Pending when the run was started
    cancel_at,          \* history: where the worker was when Cancelar was clicked
    setup_result,       \* history of the running thread: what setup_driver did
    progress,           \* history of the running thread: the texts update_text has shown
    attempts,           \* history of the running thread: the rows send_single_message was called for
    writes              \* history of the running thread: its df.at[index, 'Status'] assignments

vars ==
    <<df, send_messages_btn, select_file_btn, export_btn, driver, progress_dialog,
      dialog, grab, pc, loc, call, after_queue, launched, quit_calls, shown,
      pending_at_start, cancel_at,
                   setup_result, progress, attempts, writes>>

None == 0
NoneDf == [none |-> TRUE, rows |-> <<>>]
NoDialog == [state |-> "none", cancelled |-> FALSE]
NoLoc == [total |-> 0, success_count |-> 0, error_count |-> 0,
          current_message |-> 0, index |-> 0]
\* result = {'success': False, 'status': 'Erro desconhecido', 'error': None}
NoCall ==
    [number |-> <<>>, message |-> <<>>, url |-> <<>>, steps |-> <<>>,
     ops |-> <<>>, page |-> NoPage, success |-> FALSE, status |-> StDefault,
     error |-> "None", raised |-> FALSE]
NoCancel == [run |-> None, pc |-> "", started |-> 0]

PendingRows(rows) == {i \in DOMAIN rows : Pending(rows[i].Status)}

Active(t) == pc[t] \notin {"unborn", "done"}

\* the main window takes clicks: no dialog holds the grab
MainClickable == grab = None

(***************************************************************************)
(* CASDbotGUI.__init__ and setup_gui: no file, no driver, the send and     *)
(* export buttons disabled.                                                *)
(***************************************************************************)
Init ==
    /\ df = NoneDf
    /\ send_messages_btn = "disabled"
    /\ select_file_btn = "normal"
    /\ export_btn = "disabled"
    /\ driver = None
    /\ progress_dialog = None
    /\ dialog = [t \in Runs |-> NoDialog]
    /\ grab = None
    /\ pc = [t \in Runs |-> "unborn"]
    /\ loc = [t \in Runs |-> NoLoc]
    /\ call = [t \in Runs |-> NoCall]
    /\ after_queue = 0
    /\ launched = {}
    /\ quit_calls = [t \in Runs |-> 0]
    /\ shown = [t \in Runs |-> "none"]
    /\ pending_at_start = {}
    /\ cancel_at = NoCancel
    /\ setup_result = "none"
    /\ progress = <<>>
    /\ attempts = <<>>
    /\ writes = <<>>

(***************************************************************************)
(* CASDbotGUI.select_file, from a click on an enabled button               *)
(* (ModernButton._on_click).  The user cancels the file dialog, or picks a *)
(* file; a file load_excel rejects leaves everything as it was.            *)
(***************************************************************************)
select_file ==
    /\ select_file_btn = "normal"
    /\ MainClickable
    /\ \/ UNCHANGED <<df, send_messages_btn, export_btn>>
       \/ \E file \in Files :
            IF LoadRaises(file)
            THEN UNCHANGED <<df, send_messages_btn, export_btn>>
            ELSE /\ df' = [none |-> FALSE, rows |-> LoadExcel(file)]
                 /\ send_messages_btn' = "normal"
                 /\ export_btn' = "normal"
    /\ UNCHANGED <<select_file_btn, driver, progress_dialog, dialog, grab, pc,
                   loc, call, after_queue, launched, quit_calls, shown,
                   pending_at_start, cancel_at,
                   setup_result, progress, attempts, writes>>

\* The history variables follow one run: they start afresh with each run.
NewRunHistory ==
    /\ pending_at_start' = PendingRows(df.rows)
    /\ cancel_at' = NoCancel
    /\ launched' = {}
    /\ quit_calls' = [t \in Runs |-> 0]
    /\ shown' = [t \in Runs |-> "none"]
    /\ setup_result' = "none"
    /\ progress' = <<>>
    /\ attempts' = <<>>
    /\ writes' = <<>>

\* a plausible slip: the buttons are not disabled before the thread starts
send_messages_keeps_buttons ==
    /\ send_messages_btn = "normal"
    /\ MainClickable
    /\ \E t \in Runs :
         /\ pc[t] = "unborn"
         /\ \A u \in Runs : u < t => pc[u] # "unborn"
         /\ IF df.none
            THEN UNCHANGED <<pc, pending_at_start, cancel_at, launched, quit_calls, shown,
                             setup_result, progress, attempts, writes>>
            ELSE /\ pc' = [pc EXCEPT ![t] = "start"]
                 /\ NewRunHistory
    /\ UNCHANGED <<df, send_messages_btn, select_file_btn, export_btn, driver,
                   progress_dialog, dialog, grab, loc, call, after_queue>>

(***************************************************************************)
(* CASDbotGUI.send_messages, from a click on an enabled button: both       *)
(* buttons are disabled and a worker thread is started.                    *)
(***************************************************************************)
send_messages ==
    /\ send_messages_btn = "normal"
    /\ MainClickable
    /\ \E t \in Runs :
         /\ pc[t] = "unborn"
         /\ \A u \in Runs : u < t => pc[u] # "unborn"
         /\ IF df.none
            THEN UNCHANGED <<pc, send_messages_btn, select_file_btn, pending_at_start,
                             cancel_at, launched, quit_calls, shown,
                             setup_result, progress, attempts, writes>>
            ELSE /\ send_messages_btn' = "disabled"
                 /\ select_file_btn' = "disabled"
                 /\ pc' = [pc EXCEPT ![t] = "start"]
                 /\ NewRunHistory
    /\ UNCHANGED <<df, export_btn, driver, progress_dialog, dialog, grab, loc,
                   call, after_queue>>

(***************************************************************************)
(* CASDbotGUI.export_file, from a click on an enabled button.              *)
(***************************************************************************)
export_file ==
    /\ export_btn = "normal"
    /\ MainClickable
    /\ UNCHANGED <<df, send_messages_btn, select_file_btn, export_btn, driver,
                   progress_dialog, dialog, grab, pc, loc, call, after_queue,
                   launched, quit_calls, shown, pending_at_start, cancel_at,
                   setup_result, progress, attempts, writes>>

\* a plausible slip: cancelling stops the worker where it is, also inside
\* send_single_message
cancel_aborts_send(d) ==
    /\ dialog[d].state = "alive"
    /\ grab \in {None, d}
    /\ dialog' = [dialog EXCEPT ![d] = [state |-> "destroyed", cancelled |-> TRUE]]
    /\ grab' = IF grab = d THEN None ELSE grab
    /\ cancel_at' = [run |-> d, pc |-> pc[d], started |-> loc[d].current_message]
    /\ IF pc[d] \in {"send", "get", "wait", "click", "write"}
       THEN /\ pc' = [pc EXCEPT ![d] = "close"]
            /\ call' = [call EXCEPT ![d] = NoCall]
       ELSE UNCHANGED <<pc, call>>
    /\ UNCHANGED <<df, send_messages_btn, select_file_btn, export_btn, driver,
                   progress_dialog, loc, after_queue, launched,
                   quit_calls, shown, pending_at_start,
                   setup_result, progress, attempts, writes>>

(***************************************************************************)
(* ProgressDialog.cancel, from a click on the dialog's Cancelar button.    *)
(***************************************************************************)
cancel(d) ==
    /\ dialog[d].state = "alive"
    /\ grab \in {None, d}
    /\ dialog' = [dialog EXCEPT ![d] = [state |-> "destroyed", cancelled |-> TRUE]]
    /\ grab' = IF grab = d THEN None ELSE grab
    /\ cancel_at' = [run |-> d, pc |-> pc[d], started |-> loc[d].current_message]
    /\ UNCHANGED <<df, send_messages_btn, select_file_btn, export_btn, driver,
                   progress_dialog, pc, loc, call, after_queue, launched,
                   quit_calls, shown, pending_at_start,
                   setup_result, progress, attempts, writes>>

(***************************************************************************)
(* CASDbotGUI._reenable_buttons, run by the main loop (root.after(0, ...)).*)
(***************************************************************************)
_reenable_buttons ==
    /\ after_queue > 0
    /\ after_queue' = after_queue - 1
    /\ send_messages_btn' = "normal"
    /\ select_file_btn' = "normal"
    /\ UNCHANGED <<df, export_btn, driver, progress_dialog, dialog, grab, pc,
                   loc, call, launched, quit_calls, shown, pending_at_start, cancel_at,
                   setup_result, progress, attempts, writes>>

(***************************************************************************)
(* WhatsAppSender.setup_driver.  outcome "launch_failed": webdriver.Chrome *)
(* raised, self.driver is not assigned.  outcome "script_failed": the      *)
(* browser was launched and assigned, then execute_script raised.  Both    *)
(* are caught and False is returned.                                       *)
(***************************************************************************)
SetupOutcomes == {"ok", "launch_failed", "script_failed"}

setup_driver(t, outcome) ==
    /\ setup_result' = outcome
    /\ IF outcome = "launch_failed"
       THEN UNCHANGED <<driver, launched>>
       ELSE /\ driver' = t
            /\ launched' = launched \cup {t}

\* a plausible slip: self.driver = None only when quit() did not raise
close_driver_keeps_handle ==
    IF driver # None
    THEN /\ quit_calls' = [quit_calls EXCEPT ![driver] = @ + 1]
         /\ \E quit_raised \in BOOLEAN :
              driver' = IF quit_raised THEN driver ELSE None
    ELSE UNCHANGED <<driver, quit_calls>>

(***************************************************************************)
(* WhatsAppSender.close_driver: quit() once when there is a driver; the    *)
(* handle is dropped in the finally clause, whether quit() raised or not.  *)
(***************************************************************************)
close_driver ==
    IF driver # None
    THEN /\ quit_calls' = [quit_calls EXCEPT ![driver] = @ + 1]
         /\ driver' = None
    ELSE UNCHANGED <<driver, quit_calls>>

(***************************************************************************)
(* ProgressDialog.close: self.dialog.destroy().  Destroying a window that  *)
(* is already destroyed does nothing.                                      *)
(***************************************************************************)
dialog_close(d) ==
    /\ dialog' = [dialog EXCEPT ![d].state = "destroyed"]
    /\ grab' = IF grab = d THEN None ELSE grab

(***************************************************************************)
(* _send_messages_thread, line 532: the ProgressDialog is created, made    *)
(* modal (grab_set) and stored in self.progress_dialog.  The destroyed     *)
(* dialog of an earlier run is no longer referenced and is collected.      *)
(***************************************************************************)
create_dialog(t) ==
    /\ pc[t] = "start"
    /\ dialog' = [d \in Runs |->
                    IF d = t THEN [state |-> "alive", cancelled |-> FALSE]
                    ELSE IF dialog[d].state = "destroyed" THEN NoDialog
                    ELSE dialog[d]]
    /\ progress_dialog' = t
    /\ grab' = t
    /\ pc' = [pc EXCEPT ![t] = "setup"]
    /\ UNCHANGED <<df, send_messages_btn, select_file_btn, export_btn, driver,
                   loc, call, after_queue, launched, quit_calls, shown,
                   pending_at_start, cancel_at,
                   setup_result, progress, attempts, writes>>

\* a plausible slip: the result of setup_driver is not tested
start_session_ignores_failure(t) ==
    /\ pc[t] = "setup"
    /\ \E outcome \in SetupOutcomes :
         /\ setup_driver(t, outcome)
         /\ loc' = [loc EXCEPT ![t] =
                [total |-> Len(df.rows), success_count |-> 0,
                 error_count |-> 0, current_message |-> 0, index |-> 1]]
         /\ pc' = [pc EXCEPT ![t] = "check"]
    /\ UNCHANGED <<df, send_messages_btn, select_file_btn, export_btn,
                   progress_dialog, dialog, grab, call, after_queue,
                   quit_calls, shown, pending_at_start, cancel_at,
                   progress, attempts, writes>>

(***************************************************************************)
(* Lines 535-541: setup_driver; on False the thread raises, otherwise the  *)
(* counters are initialised.                                               *)
(***************************************************************************)
start_session(t) ==
    /\ pc[t] = "setup"
    /\ \E outcome \in SetupOutcomes :
         /\ setup_driver(t, outcome)
         /\ IF outcome = "ok"
            THEN /\ loc' = [loc EXCEPT ![t] =
                       [total |-> Len(df.rows), success_count |-> 0,
                        error_count |-> 0, current_message |-> 0, index |-> 1]]
                 /\ pc' = [pc EXCEPT ![t] = "check"]
            ELSE /\ pc' = [pc EXCEPT ![t] = "except"]
                 /\ UNCHANGED loc
    /\ UNCHANGED <<df, send_messages_btn, select_file_btn, export_btn,
                   progress_dialog, dialog, grab, call, after_queue,
                   quit_calls, shown, pending_at_start, cancel_at,
                   progress, attempts, writes>>

\* line 544: self.progress_dialog.cancelled
CancelRequested == dialog[progress_dialog].cancelled

(***************************************************************************)
(* Lines 543-547: the next row of df.iterrows(), the cancellation check    *)
(* and the count of the record being started.                              *)
(***************************************************************************)
loop_check(t) ==
    /\ pc[t] = "check"
    /\ IF loc[t].index > Len(df.rows) \/ CancelRequested
       THEN /\ pc' = [pc EXCEPT ![t] = "close"]
            /\ UNCHANGED loc
       ELSE /\ loc' = [loc EXCEPT ![t].current_message = @ + 1]
            /\ pc' = [pc EXCEPT ![t] = "update"]
    /\ UNCHANGED <<df, send_messages_btn, select_file_btn, export_btn, driver,
                   progress_dialog, dialog, grab, call, after_queue, launched,
                   quit_calls, shown, pending_at_start, cancel_at,
                   setup_result, progress, attempts, writes>>

\* line 549: f"Enviando mensagem {current_message} de {total_messages}...",
\* as the values it is formatted from
progress_text(current_message, total_messages) ==
    [current_message |-> current_message, total_messages |-> total_messages]

(***************************************************************************)
(* Lines 549-550: ProgressDialog.update_text.  label.config on a destroyed *)
(* dialog raises TclError, which the thread's except clause catches.       *)
(***************************************************************************)
update_text(t) ==
    /\ pc[t] = "update"
    /\ IF dialog[progress_dialog].state = "alive"
       THEN /\ progress' = Append(progress,
                    progress_text(loc[t].current_message, loc[t].total))
            /\ pc' = [pc EXCEPT ![t] = "send"]
       ELSE /\ pc' = [pc EXCEPT ![t] = "except"]
            /\ UNCHANGED progress
    /\ UNCHANGED <<df, send_messages_btn, select_file_btn, export_btn, driver,
                   progress_dialog, dialog, grab, loc, call, after_queue,
                   launched, quit_calls, shown, pending_at_start, cancel_at,
                   setup_result, attempts, writes>>

(***************************************************************************)
(* send_single_message.  Raised(t, c, e): exception e is raised in the try *)
(* block with locals c; the first matching except clause sets the result   *)
(* and the function returns it; with no matching clause e reaches the      *)
(* caller, whose except clause catches it.                                 *)
(***************************************************************************)
Raised(t, c, e) ==
    LET i == Dispatch(e)
    IN  IF i # 0
        THEN /\ call' = [call EXCEPT ![t] =
                   [c EXCEPT !.status = ExceptClauses[i].status,
                             !.error = IF ExceptClauses[i].catch = "Exception"
                                       THEN e ELSE ExceptClauses[i].catch]]
             /\ pc' = [pc EXCEPT ![t] = "write"]
        ELSE /\ call' = [call EXCEPT ![t] = [c EXCEPT !.raised = TRUE]]
             /\ pc' = [pc EXCEPT ![t] = "except"]

\* the arguments of the call of line 552
Row(t) == df.rows[loc[t].index]

\* a plausible slip: the page is loaded before the record is validated
send_entry_navigates_first(t) ==
    /\ pc[t] = "send"
    /\ LET c == [NoCall EXCEPT !.number = Row(t).Numero,
                               !.message = Row(t).Mensagem,
                               !.url = BuildUrl(Row(t).Numero,
                                                Quote(Strip(Row(t).Mensagem))),
                               !.ops = <<"get">>]
       IN  IF ~validate_phone_number(c.number)
           THEN /\ call' = [call EXCEPT ![t] = [c EXCEPT !.status = StInvalidNumber]]
                /\ pc' = [pc EXCEPT ![t] = "write"]
           ELSE IF Strip(c.message) = <<>>
           THEN /\ call' = [call EXCEPT ![t] = [c EXCEPT !.status = StEmptyMessage]]
                /\ pc' = [pc EXCEPT ![t] = "write"]
           ELSE /\ call' = [call EXCEPT ![t] = [c EXCEPT !.steps = <<"ok">>]]
                /\ pc' = [pc EXCEPT ![t] = "wait"]
    /\ attempts' = Append(attempts, loc[t].index)
    /\ UNCHANGED <<df, send_messages_btn, select_file_btn, export_btn, driver,
                   progress_dialog, dialog, grab, loc, after_queue, launched,
                   quit_calls, shown, pending_at_start, cancel_at,
                   setup_result, progress, writes>>

\* a plausible slip: the message with its newlines replaced (message_test)
\* is what gets quoted
send_entry_quotes_replaced(t) ==
    /\ pc[t] = "send"
    /\ LET c == [NoCall EXCEPT !.number = Row(t).Numero,
                               !.message = Row(t).Mensagem]
           clean_message == Strip(c.message)
           message_test == ReplaceNewlines(clean_message)
           message_encoded == Quote(message_test)
       IN  IF ~validate_phone_number(c.number)
           THEN /\ call' = [call EXCEPT ![t] = [c EXCEPT !.status = StInvalidNumber]]
                /\ pc' = [pc EXCEPT ![t] = "write"]
           ELSE IF clean_message = <<>>
           THEN /\ call' = [call EXCEPT ![t] = [c EXCEPT !.status = StEmptyMessage]]
                /\ pc' = [pc EXCEPT ![t] = "write"]
           ELSE /\ call' = [call EXCEPT ![t] =
                      [c EXCEPT !.url = BuildUrl(c.number, message_encoded)]]
                /\ pc' = [pc EXCEPT ![t] = "get"]
    /\ attempts' = Append(attempts, loc[t].index)
    /\ UNCHANGED <<df, send_messages_btn, select_file_btn, export_btn, driver,
                   progress_dialog, dialog, grab, loc, after_queue, launched,
                   quit_calls, shown, pending_at_start, cancel_at,
                   setup_result, progress, writes>>

(***************************************************************************)
(* Lines 198-223: the number is validated, the message stripped and        *)
(* tested, the stripped message quoted and the URL built from the number   *)
(* as passed.  (message.replace("\n", "%0A") of line 217 is only printed.) *)
(***************************************************************************)
send_entry(t) ==
    /\ pc[t] = "send"
    /\ LET c == [NoCall EXCEPT !.number = Row(t).Numero,
                               !.message = Row(t).Mensagem]
           clean_message == Strip(c.message)
           message_encoded == Quote(clean_message)
       IN  IF ~validate_phone_number(c.number)
           THEN /\ call' = [call EXCEPT ![t] = [c EXCEPT !.status = StInvalidNumber]]
                /\ pc' = [pc EXCEPT ![t] = "write"]
           ELSE IF clean_message = <<>>
           THEN /\ call' = [call EXCEPT ![t] = [c EXCEPT !.status = StEmptyMessage]]
                /\ pc' = [pc EXCEPT ![t] = "write"]
           ELSE /\ call' = [call EXCEPT ![t] =
                      [c EXCEPT !.url = BuildUrl(c.number, message_encoded)]]
                /\ pc' = [pc EXCEPT ![t] = "get"]
    /\ attempts' = Append(attempts, loc[t].index)
    /\ UNCHANGED <<df, send_messages_btn, select_file_btn, export_btn, driver,
                   progress_dialog, dialog, grab, loc, after_queue, launched,
                   quit_calls, shown, pending_at_start, cancel_at,
                   setup_result, progress, writes>>

(***************************************************************************)
(* Line 226: self.driver.get(url).  Without a driver the attribute access  *)
(* raises AttributeError before anything reaches a browser.                *)
(***************************************************************************)
send_get(t) ==
    /\ pc[t] = "get"
    /\ IF driver = None
       THEN Raised(t, [call[t] EXCEPT !.steps = Append(@, "AttributeError")],
                   "AttributeError")
       ELSE \E o \in {"ok"} \cup SessionFaults :
              LET c == [call[t] EXCEPT !.ops = Append(@, "get"),
                                       !.steps = Append(@, o)]
              IN  IF o = "ok"
                  THEN /\ call' = [call EXCEPT ![t] = c]
                       /\ pc' = [pc EXCEPT ![t] = "wait"]
                  ELSE Raised(t, c, o)
    /\ UNCHANGED <<df, send_messages_btn, select_file_btn, export_btn, driver,
                   progress_dialog, dialog, grab, loc, after_queue, launched,
                   quit_calls, shown, pending_at_start, cancel_at,
                   setup_result, progress, attempts, writes>>

\* a plausible slip: a wait without a timeout; without the icon it never
\* returns
send_wait_unbounded(t) ==
    /\ pc[t] = "wait"
    /\ \/ \E page \in Surfaces :
            LET c == [call[t] EXCEPT !.ops = Append(@, "wait_send_icon"),
                                     !.page = page]
            IN  IF page.send_icon
                THEN /\ call' = [call EXCEPT ![t] = [c EXCEPT !.steps = Append(@, "ok")]]
                     /\ pc' = [pc EXCEPT ![t] = "click"]
                ELSE /\ call' = [call EXCEPT ![t] = c]
                     /\ pc' = [pc EXCEPT ![t] = "blocked"]
       \/ \E o \in SessionFaults \ {"TimeoutException"} :
            Raised(t, [call[t] EXCEPT !.ops = Append(@, "wait_send_icon"),
                                      !.steps = Append(@, o)], o)
    /\ UNCHANGED <<df, send_messages_btn, select_file_btn, export_btn, driver,
                   progress_dialog, dialog, grab, loc, after_queue, launched,
                   quit_calls, shown, pending_at_start, cancel_at,
                   setup_result, progress, attempts, writes>>

(***************************************************************************)
(* Lines 229-232: WebDriverWait(...).until(element_to_be_clickable(        *)
(* //span[@data-icon='send'])): the icon is there within WAIT_TIMEOUT, or  *)
(* TimeoutException, or the session fails.                                 *)
(***************************************************************************)
send_wait(t) ==
    /\ pc[t] = "wait"
    /\ \/ \E page \in Surfaces :
            LET o == IF page.send_icon THEN "ok" ELSE "TimeoutException"
                c == [call[t] EXCEPT !.ops = Append(@, "wait_send_icon"),
                                     !.steps = Append(@, o),
                                     !.page = page]
            IN  IF o = "ok"
                THEN /\ call' = [call EXCEPT ![t] = c]
                     /\ pc' = [pc EXCEPT ![t] = "click"]
                ELSE Raised(t, c, o)
       \/ \E o \in SessionFaults \ {"TimeoutException"} :
            Raised(t, [call[t] EXCEPT !.ops = Append(@, "wait_send_icon"),
                                      !.steps = Append(@, o)], o)
    /\ UNCHANGED <<df, send_messages_btn, select_file_btn, export_btn, driver,
                   progress_dialog, dialog, grab, loc, after_queue, launched,
                   quit_calls, shown, pending_at_start, cancel_at,
                   setup_result, progress, attempts, writes>>

(***************************************************************************)
(* Lines 235-245: sleep(SEND_DELAY), send_button.click(),                  *)
(* sleep(POST_SEND_DELAY), then the result is set to success.              *)
(***************************************************************************)
send_click(t) ==
    /\ pc[t] = "click"
    /\ \E o \in {"ok"} \cup SessionFaults :
         LET c == [call[t] EXCEPT !.ops = @ \o <<"sleep", "click_send_icon">>,
                                  !.steps = Append(@, o)]
         IN  IF o = "ok"
             THEN /\ call' = [call EXCEPT ![t] =
                        [c EXCEPT !.ops = Append(@, "sleep"),
                                  !.success = TRUE,
                                  !.status = StSent]]
                  /\ pc' = [pc EXCEPT ![t] = "write"]
             ELSE Raised(t, c, o)
    /\ UNCHANGED <<df, send_messages_btn, select_file_btn, export_btn, driver,
                   progress_dialog, dialog, grab, loc, after_queue, launched,
                   quit_calls, shown, pending_at_start, cancel_at,
                   setup_result, progress, attempts, writes>>

\* a plausible slip: the status is written only for a record that was sent
write_status_only_success(t) ==
    /\ pc[t] = "write"
    /\ df' = IF call[t].success
             THEN [df EXCEPT !.rows[loc[t].index].Status = call[t].status]
             ELSE df
    /\ loc' = [loc EXCEPT
                 ![t].success_count = IF call[t].success THEN @ + 1 ELSE @,
                 ![t].error_count = IF call[t].success THEN @ ELSE @ + 1,
                 ![t].index = @ + 1]
    /\ writes' = IF call[t].success
                 THEN Append(writes, [index |-> loc[t].index, status |-> call[t].status])
                 ELSE writes
    /\ call' = [call EXCEPT ![t] = NoCall]
    /\ pc' = [pc EXCEPT ![t] = "check"]
    /\ UNCHANGED <<send_messages_btn, select_file_btn, export_btn, driver,
                   progress_dialog, dialog, grab, after_queue, launched,
                   quit_calls, shown, pending_at_start, cancel_at,
                   setup_result, progress, attempts>>

\* a plausible slip: a record that failed is tried again
write_status_retries(t) ==
    /\ pc[t] = "write"
    /\ df' = [df EXCEPT !.rows[loc[t].index].Status = call[t].status]
    /\ loc' = [loc EXCEPT
                 ![t].success_count = IF call[t].success THEN @ + 1 ELSE @,
                 ![t].error_count = IF call[t].success THEN @ ELSE @ + 1,
                 ![t].index = IF call[t].success THEN @ + 1 ELSE @]
    /\ writes' = Append(writes, [index |-> loc[t].index, status |-> call[t].status])
    /\ call' = [call EXCEPT ![t] = NoCall]
    /\ pc' = [pc EXCEPT ![t] = "check"]
    /\ UNCHANGED <<send_messages_btn, select_file_btn, export_btn, driver,
                   progress_dialog, dialog, grab, after_queue, launched,
                   quit_calls, shown, pending_at_start, cancel_at,
                   setup_result, progress, attempts>>

\* a plausible slip: the else of the success test is missing
write_status_counts_both(t) ==
    /\ pc[t] = "write"
    /\ df' = [df EXCEPT !.rows[loc[t].index].Status = call[t].status]
    /\ loc' = [loc EXCEPT
                 ![t].success_count = IF call[t].success THEN @ + 1 ELSE @,
                 ![t].error_count = @ + 1,
                 ![t].index = @ + 1]
    /\ writes' = Append(writes, [index |-> loc[t].index, status |-> call[t].status])
    /\ call' = [call EXCEPT ![t] = NoCall]
    /\ pc' = [pc EXCEPT ![t] = "check"]
    /\ UNCHANGED <<send_messages_btn, select_file_btn, export_btn, driver,
                   progress_dialog, dialog, grab, after_queue, launched,
                   quit_calls, shown, pending_at_start, cancel_at,
                   setup_result, progress, attempts>>

\* a plausible slip: the 1-based count used as the row label; .at with a
\* label the frame does not have adds a row
write_status_by_count(t) ==
    /\ pc[t] = "write"
    /\ df' = IF loc[t].current_message + 1 <= Len(df.rows)
             THEN [df EXCEPT !.rows[loc[t].current_message + 1].Status = call[t].status]
             ELSE [df EXCEPT !.rows = Append(@, Cell(NaN, NaN, call[t].status))]
    /\ loc' = [loc EXCEPT
                 ![t].success_count = IF call[t].success THEN @ + 1 ELSE @,
                 ![t].error_count = IF call[t].success THEN @ ELSE @ + 1,
                 ![t].index = @ + 1]
    /\ writes' = Append(writes, [index |-> loc[t].index, status |-> call[t].status])
    /\ call' = [call EXCEPT ![t] = NoCall]
    /\ pc' = [pc EXCEPT ![t] = "check"]
    /\ UNCHANGED <<send_messages_btn, select_file_btn, export_btn, driver,
                   progress_dialog, dialog, grab, after_queue, launched,
                   quit_calls, shown, pending_at_start, cancel_at,
                   setup_result, progress, attempts>>

(***************************************************************************)
(* Lines 557-562: the returned status is written into the row and the run  *)
(* counts the record as a success or an error.                             *)
(***************************************************************************)
write_status(t) ==
    /\ pc[t] = "write"
    /\ df' = [df EXCEPT !.rows[loc[t].index].Status = call[t].status]
    /\ loc' = [loc EXCEPT
                 ![t].success_count = IF call[t].success THEN @ + 1 ELSE @,
                 ![t].error_count = IF call[t].success THEN @ ELSE @ + 1,
                 ![t].index = @ + 1]
    /\ writes' = Append(writes, [index |-> loc[t].index, status |-> call[t].status])
    /\ call' = [call EXCEPT ![t] = NoCall]
    /\ pc' = [pc EXCEPT ![t] = "check"]
    /\ UNCHANGED <<send_messages_btn, select_file_btn, export_btn, driver,
                   progress_dialog, dialog, grab, after_queue, launched,
                   quit_calls, shown, pending_at_start, cancel_at,
                   setup_result, progress, attempts>>

(***************************************************************************)
(* Lines 564-569, the end of the try block: close_driver, the dialog is    *)
(* closed, the summary is shown (_show_send_result).                       *)
(***************************************************************************)
run_close_driver(t) ==
    /\ pc[t] = "close"
    /\ close_driver
    /\ pc' = [pc EXCEPT ![t] = "dialog_close"]
    /\ UNCHANGED <<df, send_messages_btn, select_file_btn, export_btn,
                   progress_dialog, dialog, grab, loc, call, after_queue,
                   launched, shown, pending_at_start, cancel_at,
                   setup_result, progress, attempts, writes>>

run_dialog_close(t) ==
    /\ pc[t] = "dialog_close"
    /\ IF progress_dialog # None
       THEN dialog_close(progress_dialog)
       ELSE UNCHANGED <<dialog, grab>>
    /\ pc' = [pc EXCEPT ![t] = "show"]
    /\ UNCHANGED <<df, send_messages_btn, select_file_btn, export_btn, driver,
                   progress_dialog, loc, call, after_queue, launched,
                   quit_calls, shown, pending_at_start, cancel_at,
                   setup_result, progress, attempts, writes>>

_show_send_result(t) ==
    /\ pc[t] = "show"
    /\ shown' = [shown EXCEPT ![t] = "summary"]
    /\ pc' = [pc EXCEPT ![t] = "finally"]
    /\ UNCHANGED <<df, send_messages_btn, select_file_btn, export_btn, driver,
                   progress_dialog, dialog, grab, loc, call, after_queue,
                   launched, quit_calls, pending_at_start, cancel_at,
                   setup_result, progress, attempts, writes>>

\* a plausible slip: the except clause does not close the driver
except_close_driver_missing(t) ==
    /\ pc[t] = "except"
    /\ pc' = [pc EXCEPT ![t] = "except_dialog"]
    /\ UNCHANGED <<df, send_messages_btn, select_file_btn, export_btn, driver,
                   progress_dialog, dialog, grab, loc, call, after_queue,
                   launched, quit_calls, shown, pending_at_start, cancel_at,
                   setup_result, progress, attempts, writes>>

(***************************************************************************)
(* Lines 571-578, the except clause of the thread: close_driver, the       *)
(* dialog is closed, the error box is shown.                               *)
(***************************************************************************)
except_close_driver(t) ==
    /\ pc[t] = "except"
    /\ close_driver
    /\ pc' = [pc EXCEPT ![t] = "except_dialog"]
    /\ UNCHANGED <<df, send_messages_btn, select_file_btn, export_btn,
                   progress_dialog, dialog, grab, loc, call, after_queue,
                   launched, shown, pending_at_start, cancel_at,
                   setup_result, progress, attempts, writes>>

except_dialog_close(t) ==
    /\ pc[t] = "except_dialog"
    /\ IF progress_dialog # None
       THEN dialog_close(progress_dialog)
       ELSE UNCHANGED <<dialog, grab>>
    /\ pc' = [pc EXCEPT ![t] = "except_show"]
    /\ UNCHANGED <<df, send_messages_btn, select_file_btn, export_btn, driver,
                   progress_dialog, loc, call, after_queue, launched,
                   quit_calls, shown, pending_at_start, cancel_at,
                   setup_result, progress, attempts, writes>>

except_showerror(t) ==
    /\ pc[t] = "except_show"
    /\ shown' = [shown EXCEPT ![t] = "error"]
    /\ pc' = [pc EXCEPT ![t] = "finally"]
    /\ UNCHANGED <<df, send_messages_btn, select_file_btn, export_btn, driver,
                   progress_dialog, dialog, grab, loc, call, after_queue,
                   launched, quit_calls, pending_at_start, cancel_at,
                   setup_result, progress, attempts, writes>>

(***************************************************************************)
(* Lines 580-581, the finally clause: _reenable_buttons is scheduled on    *)
(* the main loop and the thread ends, and with it its locals and the       *)
(* history of what it did.                                                 *)
(***************************************************************************)
run_finally(t) ==
    /\ pc[t] = "finally"
    /\ after_queue' = after_queue + 1
    /\ pc' = [pc EXCEPT ![t] = "done"]
    /\ loc' = [loc EXCEPT ![t] = NoLoc]
    /\ call' = [call EXCEPT ![t] = NoCall]
    /\ setup_result' = "none"
    /\ progress' = <<>>
    /\ attempts' = <<>>
    /\ writes' = <<>>
    /\ UNCHANGED <<df, send_messages_btn, select_file_btn, export_btn, driver,
                   progress_dialog, dialog, grab, launched, quit_calls, shown,
                   pending_at_start, cancel_at>>

(***************************************************************************)
(* The application: user events on the main loop, and the worker threads.  *)
(***************************************************************************)
Next ==
    \/ select_file
    \/ send_messages
    \/ export_file
    \/ _reenable_buttons
    \/ \E d \in Runs : cancel(d)
    \/ \E t \in Runs :
         \/ create_dialog(t)
         \/ start_session(t)
         \/ loop_check(t)
         \/ update_text(t)
         \/ send_entry(t)
         \/ send_get(t)
         \/ send_wait(t)
         \/ send_click(t)
         \/ write_status(t)
         \/ run_close_driver(t)
         \/ run_dialog_close(t)
         \/ _show_send_result(t)
         \/ except_close_driver(t)
         \/ except_dialog_close(t)
         \/ except_showerror(t)
         \/ run_finally(t)

Spec == Init /\ [][Next]_vars

(***************************************************************************)
(* The worker thread is scheduled, and each of its steps returns: the page *)
(* load and the wait have timeouts, the sleeps are fixed, quit() returns,  *)
(* and the user dismisses the message box the run ends with.               *)
(***************************************************************************)
Worker(t) ==
    \/ create_dialog(t)
    \/ start_session(t)
    \/ loop_check(t)
    \/ update_text(t)
    \/ send_entry(t)
    \/ send_get(t)
    \/ send_wait(t)
    \/ send_click(t)
    \/ write_status(t)
    \/ run_close_driver(t)
    \/ run_dialog_close(t)
    \/ _show_send_result(t)
    \/ except_close_driver(t)
    \/ except_dialog_close(t)
    \/ except_showerror(t)
    \/ run_finally(t)

SpecLive == Spec /\ \A t \in Runs : WF_vars(Worker(t))

(***************************************************************************)
(* The sender alone: send_single_message(number, message) called for one   *)
(* record, with or without a driver, over generated numbers and messages.  *)
(***************************************************************************)
NumberStyles == {"plain", "spaced", "dashed", "parens"}

RECURSIVE GenDigits(_, _, _)
GenDigits(n, i, style) ==
    IF i > n THEN <<>>
    ELSE <<IF i % 2 = 0 THEN "9" ELSE "5">>
         \o (CASE style = "spaced" /\ i % 2 = 0 -> <<" ">>
               [] style = "dashed" /\ i % 4 = 0 -> <<"-">>
               [] style = "parens" /\ i = 2 -> <<")", " ">>
               [] OTHER -> <<>>)
         \o GenDigits(n, i + 1, style)

GenNumber(n, style) ==
    (CASE style = "spaced" -> <<"+">>
       [] style = "parens" -> <<"(">>
       [] OTHER -> <<>>)
    \o GenDigits(n, 1, style)

NumberInputs == {GenNumber(n, style) : n \in 0..MaxNumDigits, style \in NumberStyles}

MessageAlphabet == {"a", " ", NL}
MessageInputs == SeqsUpTo(MessageAlphabet, MaxMsgLen)

InitSender ==
    /\ \E number \in NumberInputs, message \in MessageInputs :
         df = [none |-> FALSE, rows |-> <<Cell(number, message, "")>>]
    /\ send_messages_btn = "disabled"
    /\ select_file_btn = "disabled"
    /\ export_btn = "normal"
    /\ driver \in {None, 1}
    /\ progress_dialog = 1
    /\ dialog = [t \in Runs |->
                   IF t = 1 THEN [state |-> "alive", cancelled |-> FALSE]
                   ELSE NoDialog]
    /\ grab = 1
    /\ pc = [t \in Runs |-> IF t = 1 THEN "send" ELSE "unborn"]
    /\ loc = [t \in Runs |->
                IF t = 1 THEN [total |-> 1, success_count |-> 0, error_count |-> 0,
                               current_message |-> 1, index |-> 1]
                ELSE NoLoc]
    /\ call = [t \in Runs |-> NoCall]
    /\ after_queue = 0
    /\ launched = IF driver = None THEN {} ELSE {1}
    /\ quit_calls = [t \in Runs |-> 0]
    /\ shown = [t \in Runs |-> "none"]
    /\ pending_at_start = {1}
    /\ cancel_at = NoCancel
    /\ setup_result = IF driver = None THEN "none" ELSE "ok"
    /\ progress = <<progress_text(1, 1)>>
    /\ attempts = <<>>
    /\ writes = <<>>

NextSender ==
    \E t \in Runs :
       \/ send_entry(t)
       \/ send_get(t)
       \/ send_wait(t)
       \/ send_click(t)
       \/ write_status(t)

SpecSender == InitSender /\ [][NextSender]_vars

(***************************************************************************)
(* Properties.                                                             *)
(***************************************************************************)
\* the run of thread t has left its try block: only the finally clause is left
RunEnded(t) == pc[t] = "finally"

\* Cancelar was clicked between two records of run t (or before the first),
\* when `started` records had been started
CancelledBetweenRecords(t) ==
    /\ cancel_at.run = t
    /\ cancel_at.pc \in {"setup", "check"}

\* C1: when cancellation is signaled after record k has completed and before
\* record k+1 begins, then at the end of the run every record up to k has a
\* terminal status and every later record that was Pending is still Pending.
C1_CancelBetweenRecords ==
    \A t \in Runs :
        (RunEnded(t) /\ CancelledBetweenRecords(t)) =>
            \A i \in DOMAIN df.rows :
                /\ i <= cancel_at.started => ~Pending(df.rows[i].Status)
                /\ (i > cancel_at.started /\ i \in pending_at_start)
                       => Pending(df.rows[i].Status)

\* a run cancelled after its first record: the first row has a status, the
\* second row is still Pending
C1_Witness ==
    \E t \in Runs :
        /\ RunEnded(t)
        /\ cancel_at = [run |-> t, pc |-> "check", started |-> 1]
        /\ Len(df.rows) >= 2
        /\ ~Pending(df.rows[1].Status)
        /\ 2 \in pending_at_start
        /\ Pending(df.rows[2].Status)

\* C2: a run that launched a browser has called quit() on it exactly once
\* when it ends, on the normal, the cancelled and the error path; once the
\* run has ended the sender holds no driver, and no run starts with one.
C2_TeardownOnce ==
    /\ \A t \in Runs :
          /\ quit_calls[t] <= 1
          /\ (pc[t] \in {"finally", "done"} /\ t \in launched) => quit_calls[t] = 1
          /\ pc[t] \in {"start", "setup"} => driver = None
    /\ (\A t \in Runs : pc[t] \in {"unborn", "finally", "done"}) => driver = None

\* a second run whose setup_driver failed after the browser was launched has
\* ended on the error path, uncancelled, with the browser quit once
C2_Witness ==
    /\ pc[1] = "done"
    /\ pc[2] = "finally"
    /\ 2 \in launched
    /\ loc[2] = NoLoc
    /\ shown[2] = "error"
    /\ ~dialog[2].cancelled
    /\ quit_calls[2] = 1
    /\ driver = None

\* the session of run t was started and the loop entered
SessionStarted(t) == loc[t].index >= 1

\* C3: no failure of a record aborts the batch: no exception leaves
\* send_single_message, and a run whose session started and that was never
\* cancelled ends on the normal path with a terminal status in every record.
C3_FailuresDoNotAbort ==
    \A t \in Runs :
        /\ ~call[t].raised
        /\ (RunEnded(t) /\ SessionStarted(t) /\ ~dialog[t].cancelled) =>
              /\ shown[t] = "summary"
              /\ \A i \in DOMAIN df.rows : ~Pending(df.rows[i].Status)

\* an uncancelled run has ended in which a record failed with an unexpected
\* error and a later record was sent
C3_Witness ==
    \E t \in Runs :
        /\ RunEnded(t) /\ SessionStarted(t) /\ ~dialog[t].cancelled
        /\ \E i, j \in DOMAIN df.rows :
              /\ i < j
              /\ df.rows[i].Status = StUnexpected
              /\ df.rows[j].Status = StSent

\* send_single_message has returned to thread t: call[t] holds its result
Returned(t) == pc[t] = "write"

\* the record passed both validations and a delivery was attempted
Attempted(t) == call[t].url # <<>>

\* no step of the attempt failed for a reason other than a wait expiring
NoSessionFault(t) ==
    \A k \in DOMAIN call[t].steps : call[t].steps[k] \in {"ok", "TimeoutException"}

\* C4: on a page where the footer composer (a) is absent and the labelled
\* send control (b) is present, the attempt reaches Sent and the send icon
\* (c) is never looked for.
C4_FallbackOrder ==
    \A t \in Runs :
        (/\ Returned(t) /\ Attempted(t) /\ NoSessionFault(t)
         /\ call[t].page.loaded
         /\ ~call[t].page.composer
         /\ call[t].page.send_label) =>
            /\ call[t].status = StSent
            /\ \A k \in DOMAIN call[t].ops :
                  call[t].ops[k] \notin {"wait_send_icon", "click_send_icon"}

\* C5: the result of an attempt is one of four, decided by what its steps
\* did: Sent (success) iff get, wait and click all completed; Timeout iff a
\* step raised TimeoutException; browser error iff a step raised another
\* WebDriverException; unexpected error iff a step raised anything else;
\* and no exception leaves send_single_message.
C5_OutcomeClassification ==
    \A t \in Runs :
        /\ ~call[t].raised
        /\ (Returned(t) /\ Attempted(t)) =>
              LET steps == call[t].steps
                  Some(kinds) == \E k \in DOMAIN steps : steps[k] \in kinds
              IN  /\ call[t].status \in {StSent, StTimeout, StBrowserError, StUnexpected}
                  /\ call[t].status = StSent <=> steps = <<"ok", "ok", "ok">>
                  /\ call[t].success <=> call[t].status = StSent
                  /\ call[t].status = StTimeout <=> Some({"TimeoutException"})
                  /\ call[t].status = StBrowserError <=> Some({"WebDriverException"})
                  /\ call[t].status = StUnexpected
                        <=> Some({"ConnectionError", "AttributeError"})

\* the page loaded and the wait for the send icon expired
C5_Witness ==
    \E t \in Runs :
        /\ Returned(t) /\ Attempted(t)
        /\ call[t].steps = <<"ok", "TimeoutException">>
        /\ call[t].status = StTimeout
        /\ ~call[t].success

\* the number of digits of a number
DigitCount(number) ==
    Cardinality({k \in DOMAIN number : number[k] \in Digits})

\* C6: validate_phone_number accepts a number iff it has between 10 and 15
\* digits, whatever else it contains, and send_single_message returns
\* "Número inválido" exactly for the numbers it rejects.
C6_NumberValidation ==
    \A t \in Runs :
        /\ \A i \in DOMAIN df.rows :
              validate_phone_number(df.rows[i].Numero)
                  <=> (DigitCount(df.rows[i].Numero) >= 10
                       /\ DigitCount(df.rows[i].Numero) <= 15)
        /\ Returned(t) =>
              (call[t].status = StInvalidNumber
                  <=> ~(DigitCount(call[t].number) >= 10
                        /\ DigitCount(call[t].number) <= 15))

\* a number of 15 digits written with separators was accepted
C6_Witness ==
    \E t \in Runs :
        /\ Returned(t)
        /\ DigitCount(call[t].number) = 15
        /\ Len(call[t].number) > 15
        /\ call[t].status # StInvalidNumber

\* every character of the message is whitespace
Blank(message) == \A k \in DOMAIN message : message[k] \in Whitespace

\* C7: the message test fails iff the message is empty after trimming: a
\* record whose number is valid is classified "Mensagem vazia" iff its
\* message is blank, and no record with a non-blank message is.
C7_MessageValidation ==
    \A t \in Runs :
        Returned(t) =>
            /\ call[t].status = StEmptyMessage => Blank(call[t].message)
            /\ (Blank(call[t].message) /\ call[t].status # StInvalidNumber)
                   => call[t].status = StEmptyMessage

\* a message of a blank and a newline, with a valid number, was rejected
C7_Witness ==
    \E t \in Runs :
        /\ Returned(t)
        /\ call[t].message = <<" ", NL>>
        /\ call[t].status = StEmptyMessage

\* C8: a call that classifies its record "Número inválido" or "Mensagem
\* vazia" has done nothing with the browser session: no URL was built or
\* loaded, no wait, no click, no sleep; with or without a driver.
C8_ValidationIsLocal ==
    \A t \in Runs :
        call[t].status \in {StInvalidNumber, StEmptyMessage} =>
            /\ call[t].ops = <<>>
            /\ call[t].steps = <<>>
            /\ call[t].url = <<>>

\* a blank message was rejected by a sender that has no driver
C8_Witness ==
    \E t \in Runs :
        /\ Returned(t)
        /\ driver = None
        /\ call[t].status = StEmptyMessage
        /\ call[t].ops = <<>>

\* driver.get(url) has been called in the call of thread t
Navigated(t) == call[t].ops # <<>> /\ call[t].ops[1] = "get"

\* C9: the phone parameter of the URL the session is told to load for a
\* record that passed validation is the number with every non-digit removed.
C9_PhoneParamIsDigits ==
    \A t \in Runs :
        Navigated(t) =>
            QueryParam(call[t].url, "phone") = ReSubNonDigits(call[t].number)

\* the runs whose worker thread is running
ActiveRuns == {t \in Runs : Active(t)}

\* a click on "Enviar Mensagens" would start a worker thread now
SendClickable ==
    send_messages_btn = "normal" /\ MainClickable /\ ~df.none

\* C10: at most one worker thread runs at a time; while a run is active or
\* the sender holds a driver no click can start another thread; a thread
\* that has not yet called setup_driver finds no driver; and at most one
\* call of send_single_message is in progress.
C10_SingleSession ==
    /\ Cardinality(ActiveRuns) <= 1
    /\ SendClickable => (ActiveRuns = {} /\ driver = None)
    /\ \A t \in Runs : pc[t] \in {"start", "setup"} => driver = None
    /\ Cardinality({t \in Runs : pc[t] \in {"send", "get", "wait", "click", "write"}}) <= 1
    /\ \A t \in Runs : (Active(t) /\ driver # None) => driver = t

\* the first run has ended; a second run waits for the send icon in the
\* browser it launched, which has not been quit
C10_Witness ==
    /\ pc[1] = "done"
    /\ pc[2] = "wait"
    /\ driver = 2
    /\ quit_calls[2] = 0

\* a step of a worker thread (the main loop's handlers leave pc alone)
WorkerStep == pc' # pc

\* C11: while a batch run is active no other component reads or writes the
\* store: neither export_file nor select_file can execute, also after
\* Cancelar has been clicked while a send is still in flight.
C11_ExclusiveStore ==
    \A t \in Runs :
        Active(t) => (~ENABLED export_file /\ ~ENABLED select_file)

\* C12: over the same loaded store a record whose status is not Pending is
\* never attempted again (no call of send_single_message begins for it) and
\* no step of a run changes its status.
C12_TerminalStatus ==
    [][WorkerStep =>
         \A i \in DOMAIN df.rows :
             ~Pending(df.rows[i].Status) =>
                 /\ df'.rows[i].Status = df.rows[i].Status
                 /\ \A t \in Runs :
                       (pc[t] = "update" /\ pc'[t] = "send") => loc[t].index # i]_vars

\* C13: whenever select_file has loaded a file, every record of the store
\* is Pending, whatever the Status column of the file held.
C13_LoadedPending ==
    [][(df' # df /\ ~WorkerStep) =>
         \A i \in DOMAIN df'.rows : Pending(df'.rows[i].Status)]_vars

\* setup_driver returned False in the current run
SetupFailed == setup_result \in {"launch_failed", "script_failed"}

\* C14: when setup_driver fails the batch is aborted before it starts: no
\* record is attempted, no status is written and every record keeps the
\* status it had, no summary is shown, and the run ends with the error box.
C14_SetupFailureAborts ==
    \A t \in Runs :
        (Active(t) /\ SetupFailed) =>
            /\ attempts = <<>>
            /\ writes = <<>>
            /\ PendingRows(df.rows) = pending_at_start
            /\ call[t] = NoCall
            /\ shown[t] # "summary"
            /\ RunEnded(t) => shown[t] = "error"

\* the browser could not be launched for a store of two Pending records:
\* the run has ended with the error box and both records are still Pending
C14_Witness ==
    \E t \in Runs :
        /\ RunEnded(t)
        /\ setup_result = "launch_failed"
        /\ shown[t] = "error"
        /\ Len(df.rows) = 2
        /\ PendingRows(df.rows) = {1, 2}

\* C15: a step of a batch run changes nothing in the store except the
\* status of the record being attempted: the rows, their order, every number
\* and every message stay as loaded, and a status changes only in the row
\* of the call of send_single_message that has just returned.
C15_RunFrame ==
    [][WorkerStep =>
         /\ df'.none = df.none
         /\ Len(df'.rows) = Len(df.rows)
         /\ \A i \in DOMAIN df.rows :
               /\ df'.rows[i].Numero = df.rows[i].Numero
               /\ df'.rows[i].Mensagem = df.rows[i].Mensagem
               /\ df'.rows[i].Status # df.rows[i].Status =>
                     /\ attempts # <<>>
                     /\ attempts[Len(attempts)] = i
                     /\ \E t \in Runs : pc[t] = "write" /\ loc[t].index = i]_vars

\* a run over the sheet with separators and padding was cancelled during
\* its first record: the first status was written, the second row is as
\* loaded
C15_Witness ==
    \E t \in Runs :
        /\ RunEnded(t)
        /\ Len(writes) = 1
        /\ Len(df.rows) = 2
        /\ df.rows[1].Numero = NumPlain
        /\ df.rows[1].Mensagem = MsgHiThere
        /\ df.rows[1].Status = StTimeout
        /\ df.rows[2] = Cell(NumSeparators, MsgPadded, StatusNaN)

\* the statuses of kind `kinds` written in the current run
WritesOf(kinds) == Cardinality({k \in DOMAIN writes : writes[k].status \in kinds})

\* thread t is between two records, or past the loop
AtRecordBoundary(t) ==
    pc[t] \in {"check", "close", "dialog_close", "show", "finally"}

\* C16: at every point of a run whose session started, success_count is the
\* number of statuses "Mensagem Enviada" written in this run, error_count
\* the number of other statuses written, their sum the number of records
\* whose attempt has been recorded (every record attempted, between two
\* records), at most total_messages, which is the size of the store; and
\* the sum is total_messages when an uncancelled run shows its summary.
C16_SummaryConsistent ==
    \A t \in Runs :
        (Active(t) /\ SessionStarted(t)) =>
            /\ loc[t].success_count = WritesOf({StSent})
            /\ loc[t].error_count = Len(writes) - WritesOf({StSent})
            /\ loc[t].success_count + loc[t].error_count = Len(writes)
            /\ AtRecordBoundary(t) => Len(attempts) = Len(writes)
            /\ Len(attempts) <= loc[t].total
            /\ loc[t].total = Len(df.rows)
            /\ \A k \in DOMAIN writes : df.rows[writes[k].index].Status = writes[k].status
            /\ (RunEnded(t) /\ shown[t] = "summary" /\ ~dialog[t].cancelled) =>
                  loc[t].success_count + loc[t].error_count = loc[t].total

\* an uncancelled run over three records has shown its summary: one sent,
\* two errors
C16_Witness ==
    \E t \in Runs :
        /\ RunEnded(t)
        /\ shown[t] = "summary"
        /\ ~dialog[t].cancelled
        /\ loc[t].total = 3
        /\ loc[t].success_count = 1
        /\ loc[t].error_count = 2

\* C17: every attempted record has exactly one progress notification, shown
\* after the cancellation check and before send_single_message is called
\* for it, and none is shown for a record that is not attempted; the k-th
\* notification carries k, the size of the store and the number of the
\* k-th record.
C17_ProgressBeforeAttempt ==
    \A t \in Runs :
        (Active(t) /\ SessionStarted(t)) =>
            /\ Len(progress) = Len(attempts) + (IF pc[t] = "send" THEN 1 ELSE 0)
            /\ pc[t] = "update" => ~CancelRequested \/ cancel_at.pc = "update"
            /\ \A k \in DOMAIN progress :
                  /\ progress[k].current_message = k
                  /\ progress[k].total_messages = Len(df.rows)
                  /\ "number" \in DOMAIN progress[k]
                  /\ progress[k].number = df.rows[k].Numero

\* Cancelar was clicked while the call of send_single_message for record
\* `started` of run t was in progress
CancelledInFlight(t) ==
    /\ cancel_at.run = t
    /\ cancel_at.pc \in {"send", "get", "wait", "click", "write"}

\* C18: when Cancelar is clicked while the send of record k is in flight
\* the call runs to its return, the status it returns is written to record
\* k and counted, no record after k is started, and the run ends on the
\* normal path with its summary.
C18_CancelNeverInterrupts ==
    \A t \in Runs :
        (Active(t) /\ CancelledInFlight(t)) =>
            LET k == cancel_at.started
            IN  /\ pc[t] \notin {"update", "except", "except_dialog", "except_show"}
                /\ loc[t].current_message = k
                /\ Len(attempts) = IF pc[t] = "send" THEN k - 1 ELSE k
                /\ Len(attempts) = k => attempts[k] = k
                /\ Len(writes) = IF pc[t] \in {"send", "get", "wait", "click", "write"}
                                 THEN k - 1 ELSE k
                /\ Len(writes) = k =>
                      /\ writes[k].index = k
                      /\ df.rows[k].Status = writes[k].status
                      /\ ~Pending(df.rows[k].Status)
                      /\ loc[t].success_count + loc[t].error_count = k
                /\ RunEnded(t) =>
                      /\ shown[t] = "summary"
                      /\ driver = None
                      /\ \A i \in pending_at_start : i > k => Pending(df.rows[i].Status)

\* Cancelar was clicked while the first record waited for the send icon:
\* the message was sent and counted, the second record was not started
C18_Witness ==
    \E t \in Runs :
        /\ RunEnded(t)
        /\ cancel_at = [run |-> t, pc |-> "wait", started |-> 1]
        /\ Len(df.rows) = 2
        /\ df.rows[1].Status = StSent
        /\ Pending(df.rows[2].Status)
        /\ loc[t].success_count = 1
        /\ shown[t] = "summary"

\* the records run t has left without a status are those it did not reach
UnattemptedOnly(t) ==
    \A i \in DOMAIN df.rows :
        Pending(df.rows[i].Status) =>
            /\ i > Len(attempts)
            /\ dialog[t].cancelled \/ SetupFailed

\* C19: every step of a run returns within its bound, so every worker
\* thread that is started reaches its end, with the driver closed and with
\* each record either given a status or not reached: because the run was
\* cancelled (or, for a run aborted by setup_driver, because it never
\* began).
C19_RunTerminates ==
    \A t \in Runs :
        (pc[t] = "start") ~> (RunEnded(t) /\ driver = None /\ UnattemptedOnly(t))

\* an uncancelled run has ended whose only record got the status of an
\* expired wait, and the browser is closed
C19_Witness ==
    \E t \in Runs :
        /\ RunEnded(t)
        /\ ~dialog[t].cancelled
        /\ setup_result = "ok"
        /\ Len(df.rows) = 1
        /\ df.rows[1].Status = StTimeout
        /\ quit_calls[t] = 1
        /\ driver = None

\* C20: within one run the records are attempted in store order and each at
\* most once: the rows send_single_message was called for are 1, 2, ..., k
\* with k at most the size of the store, so a record that failed is not
\* attempted again in that run.
C20_StoreOrderOnce ==
    /\ Len(attempts) <= Len(df.rows)
    /\ \A k \in DOMAIN attempts : attempts[k] = k
    /\ \A t \in Runs :
          pc[t] \in {"get", "wait", "click", "write"} =>
              attempts[Len(attempts)] = loc[t].index

\* a run over three records has ended: the first failed with a browser
\* error and was not tried again, the second and third were attempted after
\* it
C20_Witness ==
    \E t \in Runs :
        /\ RunEnded(t)
        /\ attempts = <<1, 2, 3>>
        /\ Len(writes) = 3
        /\ df.rows[1].Status = StBrowserError

\* percent-decoding, once: each %XX becomes the character it encodes
Unquote(s) ==
    LET Coded == {" ", NL, "\t", "%", "+", "(", ")", "&", "=", "?"}
        RECURSIVE U(_)
        U(u) ==
            IF u = <<>> THEN <<>>
            ELSE IF Head(u) = "%" /\ Len(u) >= 3
                    /\ \E c \in Coded : PercentCode(c) = SubSeq(u, 1, 3)
                 THEN <<CHOOSE c \in Coded : PercentCode(c) = SubSeq(u, 1, 3)>>
                      \o U(SubSeq(u, 4, Len(u)))
                 ELSE <<Head(u)>> \o U(Tail(u))
    IN  U(s)

\* C21 as stated: the text parameter of the URL loaded for a record that
\* passed validation is the percent-encoding of the trimmed message in
\* which every newline was first replaced by %0A, and decoding it once
\* yields the trimmed message with its newlines.
C21_NewlinesReplacedBeforeEncoding ==
    \A t \in Runs :
        Navigated(t) =>
            LET trimmed == Strip(call[t].message)
                text == QueryParam(call[t].url, "text")
            IN  /\ text = Quote(ReplaceNewlines(trimmed))
                /\ Unquote(text) = trimmed

\* C21 amended: the URL loaded for a record that passed validation is the
\* number as passed followed by "&text=" and the percent-encoding of the
\* trimmed message itself; the encoding turns every newline into %0A (no
\* newline, blank or "%" of the message is left as it was), and decoding
\* the text parameter once yields the trimmed message with its newlines.
C21_TextIsQuotedTrimmedMessage ==
    \A t \in Runs :
        Navigated(t) =>
            LET trimmed == Strip(call[t].message)
                text == QueryParam(call[t].url, "text")
            IN  /\ call[t].url = BuildUrl(call[t].number, text)
                /\ text = Quote(trimmed)
                /\ \A k \in DOMAIN text : text[k] \notin Whitespace
                /\ Unquote(text) = trimmed
                /\ Cardinality({k \in DOMAIN trimmed : trimmed[k] = NL})
                     = Cardinality({k \in DOMAIN text :
                                       /\ k + 2 <= Len(text)
                                       /\ SubSeq(text, k, k + 2) = <<"%", "0", "A">>})

\* the page was loaded for a message with a newline between two letters:
\* the text parameter is a%0Aa
C21_Witness ==
    \E t \in Runs :
        /\ Navigated(t)
        /\ call[t].message = <<"a", NL, "a">>
        /\ QueryParam(call[t].url, "text") = <<"a", "%", "0", "A", "a">>

\* C22: a cancellation at any instant of a run whose session started never
\* sends the run down the error path: the cancelled run ends with its
\* summary, the driver closed, and every record it counted as started has
\* the status of its attempt.
C22_CancelEndsNormally ==
    \A t \in Runs :
        (Active(t) /\ dialog[t].cancelled /\ setup_result = "ok") =>
            /\ pc[t] \notin {"except", "except_dialog", "except_show"}
            /\ shown[t] # "error"
            /\ RunEnded(t) =>
                  /\ shown[t] = "summary"
                  /\ driver = None
                  /\ loc[t].current_message = Len(writes)
                  /\ \A i \in 1..loc[t].current_message : ~Pending(df.rows[i].Status)

====
